---- MODULE Spec2Model ----
(***************************************************************************)
(* Demucs stem separation service (app/services/demucs/main.py).           *)
(*                                                                         *)
(* The process is one asyncio event loop: a handler runs without           *)
(* interruption from one await to the next.  The only await inside the     *)
(* separation handlers is `await file.read()`; everything behind it        *)
(* (temp file, get_separator, the engine call, encoding, unlink) is        *)
(* synchronous.  `running` is the task that holds the event loop.          *)
(***************************************************************************)
EXTENDS Integers, Sequences, FiniteSets, TLC

\* Requests that may be in flight at once, and requests the model admits in
\* all.  A request's record is dropped when its response has been sent.
MaxInFlight == 2
MaxRequests == 2

Reqs == 1..MaxInFlight

\* ------------------------------------------------------------------ values

\* Python None for the parameters that are strings.
NoStem == "<None>"
NoName == "<None>"
\* Python None for the module-level _separator.
NoHandle == [model |-> "<None>", gen |-> 0]

DefaultModel == "htdemucs"
Models == {"htdemucs", "mdx_extra"}
FileNames == {NoName, "", "song.wav"}
\* stem query values of /separate: absent, empty, and two names
StemParams == {NoStem, "", "vocals", "guitar"}
\* stem_name path values of /separate/stem/{stem_name}: a path segment is never empty
StemPaths == {"vocals", "guitar"}
\* format query values of /separate/all: the two documented and one other
Formats == {"wav", "mp3", "flac"}
\* What the engine may return as `separated` (a dict, in insertion order).
EngineOutputs == {<<"drums", "vocals">>, <<"drums", "guitar", "vocals">>}
\* str(e) of the exceptions the collaborators may raise.
EngineErrors == {"CUDA out of memory", "Could not decode file"}
ReadError == "read failed"
WriteError == "No space left on device"
LoadErrorMsg == "model load failed"
EncodeError == "encode failed"
ZipError == "zip failed"

NoExc == [kind |-> "none", status |-> 0, text |-> "", cause |-> "", stem |-> "", available |-> <<>>]
NoResp == [status |-> 0, kind |-> "none", detail |-> NoExc, stem_name |-> "",
           filename |-> <<>>, track_id |-> 0, stems |-> <<>>, entries |-> <<>>,
           model |-> ""]

VARIABLES
    _separator,   \* the module-level model cache (line 31)
    startup,      \* "pending" | "ok" | "failed": the startup_event hook
    running,      \* the request whose handler holds the event loop, 0 if none
    rq,           \* per request: inputs, handler position, locals
    fs,           \* temp files that exist on disk (named by their request's id)
    arrived,      \* requests admitted so far
    loaded,       \* successful calls of demucs.api.Separator(...) so far
    served,       \* what get_separator returned to requests so far: the set of
                  \* [handle, constructed by this call, the request raced]
    health        \* the last /health response body

vars == <<_separator, startup, running, rq, fs, arrived, loaded, served, health>>

\* `raced`: the request was suspended in file.read() together with another
\* request while the cache was empty.
Idle == [pc |-> "idle", id |-> 0, raced |-> FALSE,
         ep |-> "", filename |-> NoName, model |-> "", stem |-> NoStem,
         format |-> "", track_id |-> 0, created |-> 0, deleted |-> 0,
         got |-> FALSE, constructed |-> FALSE, handle |-> NoHandle,
         engine_calls |-> 0, separated |-> <<>>, encodes |-> 0,
         exc |-> NoExc, ret |-> NoResp, resp |-> NoResp]

\* ----------------------------------------------------------------- helpers

Range(s) == {s[i] : i \in 1..Len(s)}

\* Mutant: `file.filename is None`, which lets the empty name through.
FilenameIsNone(fn) == fn = NoName

\* `not file.filename` (lines 84, 171)
FilenameMissing(fn) == fn \in {NoName, ""}

\* Mutant: the cache test is lost and every call constructs.
NeedsLoadAlways(sep) == TRUE

\* `_separator is None` (line 36)
NeedsLoad(sep) == sep = NoHandle

\* Mutant: `if stem is not None`, which takes the empty string for a filter.
StemRequestedNotNone(stem) == stem # NoStem

\* `if stem:` (line 112): None and the empty string are both falsy
StemRequested(stem) == stem \notin {NoStem, ""}

\* Mutant: the membership test is lost.
StemKnownAlways(stem, separated) == TRUE

\* `stem not in separated` (line 113), negated
StemKnown(stem, separated) == stem \in Range(separated)

\* Mutant: the constructor is awaited (run in a worker thread).
YieldsInConstruct(pc) == pc \in {"read", "construct"}

\* Mutant: the engine call is awaited (run in a worker thread).
YieldsInEngine(pc) == pc \in {"read", "inengine"}

\* The handler positions at which the coroutine gives up the event loop:
\* `await file.read()` (lines 91, 177) and nothing else.
Yields(pc) == pc = "read"

\* Who holds the event loop while request r is inside the call at `pc`:
\* nobody if the call is awaited, r itself if the call blocks.
Holder(r, pc) == IF Yields(pc) THEN 0 ELSE r

\* HTTPException(status_code, detail)
HTTPException(status, text, cause, stem, available) ==
    [kind |-> "http", status |-> status, text |-> text, cause |-> cause,
     stem |-> stem, available |-> available]

\* any other exception, with its str(e)
Error(msg) == [kind |-> "error", status |-> 0, text |-> "", cause |-> msg,
               stem |-> "", available |-> <<>>]

\* The response FastAPI sends for a raised HTTPException.
ErrorResponse(e) == [NoResp EXCEPT !.status = e.status, !.kind = "error", !.detail = e]

\* Mutant: the `except HTTPException: raise` clause is missing.
OutermostCatchAll(ep, e) == HTTPException(500, "Separation failed", e.cause, "", <<>>)

\* Mutant: only the /separate route re-raises an HTTPException unchanged.
OutermostOnlySeparate(ep, e) ==
    IF ep = "separate" /\ e.kind = "http"
    THEN e
    ELSE HTTPException(500, "Separation failed", e.cause, "", <<>>)

\* The except clauses that close the outer try (lines 154-158, 215-217).
\* /separate re-raises an HTTPException unchanged; /separate/all has no such
\* clause, so `except Exception` takes it too.
Outermost(ep, e) ==
    IF ep # "all" /\ e.kind = "http"
    THEN e
    ELSE HTTPException(500, "Separation failed", e.cause, "", <<>>)

\* ------------------------------------------------------------ model cache

\* Mutant: the global is assigned before the constructor has succeeded.
ConstructPoisoned(model, ok) ==
    /\ _separator' = [model |-> model, gen |-> loaded + 1]
    /\ loaded' = IF ok THEN loaded + 1 ELSE loaded

\* demucs.api.Separator(model=model, device=device) and the assignment to
\* the global (line 40).  `ok` is whether the constructor returns.
Construct(model, ok) ==
    IF ok
    THEN /\ _separator' = [model |-> model, gen |-> loaded + 1]
         /\ loaded' = loaded + 1
    ELSE UNCHANGED <<_separator, loaded>>

\* get_separator(model) (lines 33-42)
get_separator(model, ok) ==
    IF NeedsLoad(_separator)
    THEN Construct(model, ok)
    ELSE UNCHANGED <<_separator, loaded>>

\* get_separator raises exactly when it ran the constructor and that failed.
LoadRaises(ok) == NeedsLoad(_separator) /\ ~ok

\* startup_event (lines 54-60): the failure is logged and swallowed.
StartupEvent ==
    /\ startup = "pending"
    /\ \E ok \in BOOLEAN :
         /\ get_separator(DefaultModel, ok)
         /\ startup' = IF LoadRaises(ok) THEN "failed" ELSE "ok"
    /\ UNCHANGED <<running, rq, fs, arrived, served, health>>

\* Mutant: model_loaded reports how the startup warm-up ended.
HealthBodyFromStartup == [status |-> "healthy", model_loaded |-> startup = "ok"]

\* health_check (lines 62-71)
HealthBody == [status |-> "healthy", model_loaded |-> _separator # NoHandle]

HealthCheck ==
    /\ startup # "pending"
    /\ running = 0
    /\ health' = HealthBody
    /\ UNCHANGED <<_separator, startup, running, rq, fs, arrived, loaded, served>>

\* ---------------------------------------------------------------- requests

\* A new request takes the lowest free slot.
NextSlot(r) == rq[r].pc = "idle" /\ \A o \in Reqs : o < r => rq[o].pc # "idle"

\* Requests suspended in `await file.read()`.
Suspended == {o \in Reqs : rq[o].pc = "read"}

\* The handler from its entry to `await file.read()`
\* (lines 84-91 and 171-177): the filename check, then the track id
\* (uuid4: a fresh value, here the arrival number).
Enter(r, ep, fn, model, stem, format) ==
    /\ startup # "pending"
    /\ running = 0
    /\ NextSlot(r)
    /\ arrived < MaxRequests
    /\ arrived' = arrived + 1
    /\ LET q == [Idle EXCEPT !.id = arrived + 1, !.ep = ep, !.filename = fn,
                             !.model = model, !.stem = stem, !.format = format]
           race == _separator = NoHandle /\ Suspended # {}
       IN IF FilenameMissing(fn)
          THEN /\ rq' = [rq EXCEPT ![r] = [q EXCEPT !.pc = "done",
                         !.resp = ErrorResponse(HTTPException(400, "No filename provided", "", "", <<>>))]]
               /\ running' = r
          ELSE /\ rq' = [o \in Reqs |->
                          IF o = r THEN [q EXCEPT !.pc = "read", !.track_id = arrived + 1,
                                                  !.raced = race]
                          ELSE IF race /\ o \in Suspended THEN [rq[o] EXCEPT !.raced = TRUE]
                          ELSE rq[o]]
               /\ running' = Holder(r, "read")
    /\ UNCHANGED <<_separator, startup, fs, loaded, served, health>>

\* POST /separate (lines 73-78)
SeparateAudio(r) ==
    \E fn \in FileNames, model \in Models, stem \in StemParams :
        Enter(r, "separate", fn, model, stem, "")

\* POST /separate/all (lines 160-165)
SeparateAllStems(r) ==
    \E fn \in FileNames, model \in Models, format \in Formats :
        Enter(r, "all", fn, model, NoStem, format)

\* POST /separate/stem/{stem_name} (lines 219-226): calls separate_audio
GetSingleStem(r) ==
    \E fn \in FileNames, model \in Models, stem \in StemPaths :
        Enter(r, "stem", fn, model, stem, "")

\* The handler leaves with exception e raised out of the inner try or from
\* before it: the outermost except clauses turn it into the response.
Raise(q, e) ==
    [q EXCEPT !.pc = "done", !.exc = e, !.resp = ErrorResponse(Outermost(q.ep, e))]

\* `content = await file.read()` returns or raises (lines 91, 177).
ReadUpload(r) ==
    /\ rq[r].pc = "read"
    /\ running = Holder(r, "read")
    /\ \/ /\ rq' = [rq EXCEPT ![r].pc = "write"]
          /\ running' = r
       \/ /\ rq' = [rq EXCEPT ![r] = Raise(rq[r], Error(ReadError))]
          /\ running' = r
    /\ UNCHANGED <<_separator, startup, fs, arrived, loaded, served, health>>

\* NamedTemporaryFile(delete=False) creates the file, tmp.write(content)
\* fills it (lines 95-97, 180-182).  A failing write leaves the `with`
\* block by exception: the file is closed, not deleted, and the inner
\* try/finally has not been entered.
WriteTemp(r) ==
    /\ rq[r].pc = "write"
    /\ running = r
    /\ fs' = fs \cup {rq[r].id}
    /\ LET q == [rq[r] EXCEPT !.created = @ + 1]
       IN \/ rq' = [rq EXCEPT ![r] = [q EXCEPT !.pc = "load"]]
          \/ rq' = [rq EXCEPT ![r] = Raise(q, Error(WriteError))]
    /\ UNCHANGED <<_separator, startup, running, arrived, loaded, served, health>>

\* What a request's get_separator call returned, for the log.
Served(q, h) == [handle |-> h, constructed |-> q.constructed, raced |-> q.raced]

\* separator = get_separator(model) (lines 101, 185), up to the test of
\* line 36: the cached handle is returned, or the constructor is entered.
LoadModel(r) ==
    /\ rq[r].pc = "load"
    /\ running = r
    /\ LET q == [rq[r] EXCEPT !.got = TRUE, !.constructed = NeedsLoad(_separator)]
       IN IF NeedsLoad(_separator)
          THEN /\ rq' = [rq EXCEPT ![r] = [q EXCEPT !.pc = "construct"]]
               /\ running' = Holder(r, "construct")
               /\ UNCHANGED served
          ELSE /\ rq' = [rq EXCEPT ![r] = [q EXCEPT !.pc = "engine", !.handle = _separator]]
               /\ served' = served \cup {Served(q, _separator)}
               /\ UNCHANGED running
    /\ UNCHANGED <<_separator, startup, fs, arrived, loaded, health>>

\* demucs.api.Separator(...) returns and is stored, or raises (lines 37-42).
ConstructModel(r) ==
    /\ rq[r].pc = "construct"
    /\ running = Holder(r, "construct")
    /\ running' = r
    /\ \E ok \in BOOLEAN :
         /\ Construct(rq[r].model, ok)
         /\ IF ok
            THEN /\ rq' = [rq EXCEPT ![r].pc = "engine", ![r].handle = _separator']
                 /\ served' = served \cup {Served(rq[r], _separator')}
            ELSE /\ rq' = [rq EXCEPT ![r].pc = "finally", ![r].exc = Error(LoadErrorMsg)]
                 /\ UNCHANGED served
    /\ UNCHANGED <<startup, fs, arrived, health>>

\* separator.separate_audio_file(tmp_path) is entered (lines 105, 186).
\* It is an ordinary blocking call: the coroutine keeps the event loop.
EngineEnter(r) ==
    /\ rq[r].pc = "engine"
    /\ running = r
    /\ rq' = [rq EXCEPT ![r].pc = "inengine", ![r].engine_calls = @ + 1]
    /\ running' = Holder(r, "inengine")
    /\ UNCHANGED <<_separator, startup, fs, arrived, loaded, served, health>>

\* separate_audio_file returns (origin, separated) or raises.
EngineReturn(r) ==
    /\ rq[r].pc = "inengine"
    /\ running = Holder(r, "inengine")
    /\ running' = r
    /\ \/ \E out \in EngineOutputs :
            rq' = [rq EXCEPT ![r].pc = "shape", ![r].separated = out]
       \/ \E e \in EngineErrors :
            rq' = [rq EXCEPT ![r].pc = "finally", ![r].exc = Error(e)]
    /\ UNCHANGED <<_separator, startup, fs, arrived, loaded, served, health>>

\* -------------------------------------------------------- response shapes

\* Mutant: the format flag is passed on to torchaudio.save.
EncodeFormatAsAsked(format) == format

\* torchaudio.save(..., format="wav"): both branches of the format test
\* (lines 193-197) encode WAV.
EncodeFormat(format) == IF format = "mp3" THEN "wav" ELSE "wav"

\* f"{name}.wav" (lines 129, 199) as <<stem, extension>>
WavName(name) == <<name, "wav">>

\* One archive entry (line 199): its name and the codec of its bytes.
ZipEntry(name, format) == [name |-> WavName(name), codec |-> EncodeFormat(format)]

\* StreamingResponse of one stem (lines 125-133)
StreamResponse(q) ==
    [NoResp EXCEPT !.status = 200, !.kind = "stream", !.stem_name = q.stem,
                   !.filename = WavName(q.stem), !.track_id = q.track_id]

\* Mutant: the descriptor lists the four usual stems instead of the engine's.
MetadataHardcoded(q) ==
    [NoResp EXCEPT !.status = 200, !.kind = "metadata", !.track_id = q.track_id,
                   !.stems = <<"drums", "bass", "other", "vocals">>, !.model = q.model]

\* SeparationResult (lines 143-148): one StemInfo per item of `separated`,
\* and the model the request named.
MetadataResponse(q) ==
    [NoResp EXCEPT !.status = 200, !.kind = "metadata", !.track_id = q.track_id,
                   !.stems = q.separated, !.model = q.model]

\* StreamingResponse of the archive (lines 203-210)
ZipResponse(q) ==
    [NoResp EXCEPT !.status = 200, !.kind = "zip", !.track_id = q.track_id,
                   !.entries = [i \in 1..Len(q.separated) |-> ZipEntry(q.separated[i], q.format)]]

\* The exception of line 114: the detail names the stem and list(separated.keys()).
UnknownStem(q) == HTTPException(400, "Stem not found", "", q.stem, q.separated)

\* separate_audio from the engine's return to the return statement
\* (lines 108-148).  Each torchaudio.save may raise.
ShapeSeparate(r) ==
    /\ rq[r].pc = "shape"
    /\ rq[r].ep \in {"separate", "stem"}
    /\ running = r
    /\ LET q == rq[r]
           n == Len(q.separated)
       IN IF StemRequested(q.stem)
          THEN IF ~StemKnown(q.stem, q.separated)
               THEN rq' = [rq EXCEPT ![r] = [q EXCEPT !.pc = "finally", !.exc = UnknownStem(q)]]
               ELSE \/ rq' = [rq EXCEPT ![r] = [q EXCEPT !.pc = "finally", !.encodes = 1,
                                                         !.ret = StreamResponse(q)]]
                    \/ rq' = [rq EXCEPT ![r] = [q EXCEPT !.pc = "finally", !.encodes = 1,
                                                         !.exc = Error(EncodeError)]]
          ELSE \/ rq' = [rq EXCEPT ![r] = [q EXCEPT !.pc = "finally", !.encodes = n,
                                                    !.ret = MetadataResponse(q)]]
               \/ \E k \in 1..n :
                    rq' = [rq EXCEPT ![r] = [q EXCEPT !.pc = "finally", !.encodes = k,
                                                      !.exc = Error(EncodeError)]]
    /\ UNCHANGED <<_separator, startup, running, fs, arrived, loaded, served, health>>

\* separate_all_stems from the engine's return to the return statement
\* (lines 188-210).  An encode or the archive write may raise.
ShapeAll(r) ==
    /\ rq[r].pc = "shape"
    /\ rq[r].ep = "all"
    /\ running = r
    /\ LET q == rq[r]
           n == Len(q.separated)
       IN \/ rq' = [rq EXCEPT ![r] = [q EXCEPT !.pc = "finally", !.encodes = n,
                                               !.ret = ZipResponse(q)]]
          \/ \E k \in 1..n :
               rq' = [rq EXCEPT ![r] = [q EXCEPT !.pc = "finally", !.encodes = k,
                                                 !.exc = Error(EncodeError)]]
          \/ rq' = [rq EXCEPT ![r] = [q EXCEPT !.pc = "finally", !.encodes = n,
                                               !.exc = Error(ZipError)]]
    /\ UNCHANGED <<_separator, startup, running, fs, arrived, loaded, served, health>>

\* The finally clause (lines 150-152, 212-213), then the outermost except
\* clauses or the return: the response is produced.
Finally(r) ==
    /\ rq[r].pc = "finally"
    /\ running = r
    /\ fs' = fs \ {rq[r].id}
    /\ LET q == [rq[r] EXCEPT !.deleted = @ + 1]
       IN rq' = [rq EXCEPT ![r] =
                   IF q.exc.kind = "none"
                   THEN [q EXCEPT !.pc = "done", !.resp = q.ret]
                   ELSE Raise(q, q.exc)]
    /\ UNCHANGED <<_separator, startup, running, arrived, loaded, served, health>>

\* The response has been handed to the server: the handler's task ends,
\* the event loop is free and the request's objects are dropped.
Send(r) ==
    /\ rq[r].pc = "done"
    /\ running = r
    /\ rq' = [rq EXCEPT ![r] = Idle]
    /\ running' = 0
    /\ UNCHANGED <<_separator, startup, fs, arrived, loaded, served, health>>

\* ------------------------------------------------------------ specification

Init ==
    /\ _separator = NoHandle
    /\ startup = "pending"
    /\ running = 0
    /\ rq = [r \in Reqs |-> Idle]
    /\ fs = {}
    /\ loaded = 0
    /\ arrived = 0
    /\ served = {}
    /\ health = [status |-> "none", model_loaded |-> FALSE]

Next ==
    \/ StartupEvent
    \/ HealthCheck
    \/ \E r \in Reqs : SeparateAudio(r)
    \/ \E r \in Reqs : SeparateAllStems(r)
    \/ \E r \in Reqs : GetSingleStem(r)
    \/ \E r \in Reqs : ReadUpload(r)
    \/ \E r \in Reqs : WriteTemp(r)
    \/ \E r \in Reqs : LoadModel(r)
    \/ \E r \in Reqs : ConstructModel(r)
    \/ \E r \in Reqs : EngineEnter(r)
    \/ \E r \in Reqs : EngineReturn(r)
    \/ \E r \in Reqs : ShapeSeparate(r)
    \/ \E r \in Reqs : ShapeAll(r)
    \/ \E r \in Reqs : Finally(r)
    \/ \E r \in Reqs : Send(r)

Spec == Init /\ [][Next]_vars

TypeOK ==
    /\ startup \in {"pending", "ok", "failed"}
    /\ running \in 0..MaxInFlight
    /\ fs \subseteq 1..MaxRequests
    /\ arrived \in 0..MaxRequests
    /\ loaded \in 0..(MaxRequests + 1)
    /\ Cardinality(served) <= MaxRequests
    /\ \A r \in Reqs : rq[r].pc \in {"idle", "read", "write", "load", "construct", "engine",
                                     "inengine", "shape", "finally", "done"}

\* ------------------------------------------------------------------ claims

\* The response of request slot r has been produced.
Responded(r) == rq[r].pc = "done"

\* The engine returned a mapping to request slot r.
EngineReturned(r) == rq[r].separated # <<>>

\* C1: for every /separate and /separate/all request, whatever its outcome,
\* the scratch file created for it no longer exists when its response is
\* produced.
C1_ScratchFileGone ==
    \A r \in Reqs : Responded(r) => rq[r].id \notin fs

\* C2 as stated: every /separate request carrying a stem value that is not a
\* key of the mapping the engine returned is answered 400, the body listing
\* exactly the engine's stem names.
C2_AnyUnknownStem400 ==
    \A r \in Reqs :
        (/\ Responded(r)
         /\ rq[r].ep \in {"separate", "stem"}
         /\ EngineReturned(r)
         /\ rq[r].stem # NoStem
         /\ rq[r].stem \notin Range(rq[r].separated))
        => /\ rq[r].resp.status = 400
           /\ rq[r].resp.detail.available = rq[r].separated

\* C2 amended: every /separate request carrying a NON-EMPTY stem value that
\* is not a key of the mapping the engine returned is answered 400 (not 200,
\* not 500), the body naming the stem and listing exactly the engine's stem
\* names.
C2_UnknownStem400 ==
    \A r \in Reqs :
        (/\ Responded(r)
         /\ rq[r].ep \in {"separate", "stem"}
         /\ EngineReturned(r)
         /\ rq[r].stem \notin {NoStem, ""}
         /\ rq[r].stem \notin Range(rq[r].separated))
        => /\ rq[r].resp.status = 400
           /\ rq[r].resp.kind = "error"
           /\ rq[r].resp.detail.text = "Stem not found"
           /\ rq[r].resp.detail.stem = rq[r].stem
           /\ rq[r].resp.detail.available = rq[r].separated

C2_Witness ==
    \E r \in Reqs :
        /\ Responded(r)
        /\ rq[r].ep = "separate"
        /\ rq[r].stem = "guitar"
        /\ rq[r].separated = <<"drums", "vocals">>
        /\ rq[r].resp.status = 400
        /\ rq[r].resp.detail.available = <<"drums", "vocals">>

\* C3: a request whose upload has a missing or empty filename is answered
\* 400; no scratch file is created for it, it never calls get_separator and
\* never invokes the engine.
C3_NoFilenameRejected ==
    \A r \in Reqs :
        (rq[r].pc # "idle" /\ rq[r].filename \in {NoName, ""})
        => /\ Responded(r)
           /\ rq[r].resp.status = 400
           /\ rq[r].resp.detail.text = "No filename provided"
           /\ rq[r].created = 0
           /\ rq[r].id \notin fs
           /\ ~rq[r].got
           /\ rq[r].handle = NoHandle
           /\ rq[r].engine_calls = 0

C3_Witness ==
    \E r \in Reqs :
        /\ Responded(r)
        /\ rq[r].filename = ""
        /\ rq[r].ep = "all"
        /\ rq[r].resp.status = 400
        /\ rq[r].created = 0

\* Request slot r takes a step out of get_separator's cache test.
LeavesLoad(r) == rq[r].pc = "load" /\ rq'[r].pc # "load"

\* C4: the engine-construction step runs at most once while the cache holds
\* a handle: once a construction has succeeded, no later step (of a request
\* naming the same model identifier or any other) enters the constructor,
\* counts another load or changes the cached handle.
C4_ConstructOnce ==
    [][ _separator # NoHandle =>
          /\ _separator' = _separator
          /\ loaded' = loaded
          /\ \A r \in Reqs : LeavesLoad(r) =>
                /\ rq'[r].pc = "engine"
                /\ ~rq'[r].constructed
                /\ rq'[r].handle = _separator ]_vars

C4_Witness ==
    \E r \in Reqs :
        /\ Responded(r)
        /\ rq[r].got
        /\ ~rq[r].constructed
        /\ rq[r].model = DefaultModel
        /\ rq[r].handle = _separator
        /\ _separator.model = DefaultModel
        /\ startup = "ok"
        /\ loaded = 1

\* C5: get_separator is keyed by model identifier: the handle a call returns
\* was constructed for the model identifier passed in.
C5_KeyedByModel ==
    \A r \in Reqs :
        rq[r].handle # NoHandle => rq[r].handle.model = rq[r].model

\* C6: when several first requests are in flight together while the cache is
\* empty, under every interleaving the constructor succeeds at most once and
\* all those requests are given the same handle.
C6_NoDuplicateLoad ==
    /\ loaded <= 1
    /\ \A e1, e2 \in served : (e1.raced /\ e2.raced) => e1.handle = e2.handle
    /\ \A e \in served : \A r \in Reqs :
          (e.raced /\ rq[r].raced /\ rq[r].handle # NoHandle) => rq[r].handle = e.handle

C6_Witness ==
    \E r \in Reqs : \E e \in served :
        /\ rq[r].raced
        /\ rq[r].pc = "inengine"
        /\ ~rq[r].constructed
        /\ rq[r].model = rq[r].handle.model
        /\ e.raced
        /\ e.constructed
        /\ e.handle = rq[r].handle
        /\ loaded = 1

\* The requests inside separator.separate_audio_file.
InEngine == {r \in Reqs : rq[r].pc = "inengine"}

\* C7: in every reachable state at most one request is inside the engine
\* invocation (separate_audio_file), whatever else is in flight.
C7_EngineSerialized == Cardinality(InEngine) <= 1

C7_Witness ==
    \E r, o \in Reqs :
        /\ r # o
        /\ rq[r].pc = "inengine"
        /\ rq[o].pc = "read"
        /\ rq[r].ep = "separate"
        /\ rq[o].ep = "all"

\* C8: each request, whatever its outcome, has created exactly one scratch
\* file and deleted exactly one when its response is produced.
C8_OneCreatedOneDeleted ==
    \A r \in Reqs : Responded(r) => (rq[r].created = 1 /\ rq[r].deleted = 1)

\* C8, on the requests that did create their scratch file (a request
\* rejected for its filename creates none, as C3 requires): when the
\* response is produced the file created has also been deleted.
C8_CreatedThenDeleted ==
    \A r \in Reqs :
        (Responded(r) /\ rq[r].created >= 1)
        => (rq[r].created = 1 /\ rq[r].deleted = 1)

\* C9 as stated: a /separate request whose stem value is not in the engine's
\* returned stem set fails before any encoding work: no torchaudio.save runs
\* for it.
C9_AnyUnknownStemNoEncode ==
    \A r \in Reqs :
        (/\ rq[r].ep \in {"separate", "stem"}
         /\ EngineReturned(r)
         /\ rq[r].stem # NoStem
         /\ rq[r].stem \notin Range(rq[r].separated))
        => /\ rq[r].encodes = 0
           /\ Responded(r) => rq[r].resp.status = 400

\* C9 amended: a /separate request whose NON-EMPTY stem value is not in the
\* engine's returned stem set fails before any encoding work: from the
\* engine's return to the 400 response no torchaudio.save runs for it.
C9_UnknownStemNoEncode ==
    \A r \in Reqs :
        (/\ rq[r].ep \in {"separate", "stem"}
         /\ EngineReturned(r)
         /\ rq[r].stem \notin {NoStem, ""}
         /\ rq[r].stem \notin Range(rq[r].separated))
        => /\ rq[r].encodes = 0
           /\ rq[r].ret = NoResp
           /\ Responded(r) => rq[r].resp.status = 400

C9_Witness ==
    \E r \in Reqs :
        /\ Responded(r)
        /\ rq[r].ep = "stem"
        /\ rq[r].stem = "guitar"
        /\ rq[r].separated = <<"drums", "vocals">>
        /\ rq[r].encodes = 0
        /\ rq[r].resp.status = 400

\* The step of a failing startup_event leaves the cache empty.
C10_StartupStep ==
    (startup = "pending" /\ startup' = "failed") =>
        (_separator' = NoHandle /\ loaded' = 0)

\* After a failed startup, a get_separator call that finds the cache empty
\* enters the constructor, and a constructor that returns caches the handle
\* for the model named and hands it to the request.
C10_RetryStep(r) ==
    /\ (startup = "failed" /\ _separator = NoHandle /\ LeavesLoad(r))
          => (rq'[r].pc = "construct" /\ rq'[r].constructed)
    /\ (startup = "failed" /\ rq[r].pc = "construct" /\ rq'[r].pc = "engine")
          => /\ _separator' # NoHandle
             /\ _separator'.model = rq[r].model
             /\ rq'[r].handle = _separator'
             /\ loaded' = loaded + 1

\* After a failed startup /health can be answered whenever the loop is free.
C10_HealthAnswers ==
    (startup = "failed" /\ running = 0) => ENABLED HealthCheck

\* C10: a failed startup warm-up is not fatal and is retried lazily: the
\* failing startup_event leaves the cache empty, /health can still be
\* answered, and the next request that reaches get_separator with the cache
\* still empty runs the constructor again; if that succeeds the request is
\* given the new handle, which is the one now cached.
C10_LazyRetry ==
    /\ []C10_HealthAnswers
    /\ [][C10_StartupStep /\ \A r \in Reqs : C10_RetryStep(r)]_vars

C10_Witness ==
    \E r \in Reqs :
        /\ startup = "failed"
        /\ Responded(r)
        /\ rq[r].constructed
        /\ rq[r].handle = _separator
        /\ _separator # NoHandle
        /\ rq[r].resp.status = 200
        /\ health.status = "healthy"

\* Whenever the server is up and the event loop is free, /health is answered.
C11_HealthEnabled ==
    (startup # "pending" /\ running = 0) => ENABLED HealthCheck

\* A /health answer is "healthy" and tells whether the cache holds a handle.
C11_HealthStep ==
    health' # health =>
        /\ health'.status = "healthy"
        /\ health'.model_loaded = (_separator # NoHandle)

\* model_loaded has only been reported true after a successful construction.
C11_LoadedOnlyAfterLoad ==
    health.model_loaded => (loaded >= 1 /\ _separator # NoHandle)

\* C11: GET /health has no failing path: it is answered whenever the event
\* loop reaches it (before, between and after loads and requests, also after
\* failed loads); its model_loaded equals "the cache holds a handle", so it
\* is false in every state not preceded by a successful construction.
C11_HealthReflectsCache ==
    /\ []C11_HealthEnabled
    /\ []C11_LoadedOnlyAfterLoad
    /\ [][C11_HealthStep]_vars

C11_Witness ==
    /\ startup = "failed"
    /\ health.status = "healthy"
    /\ health.model_loaded
    /\ loaded = 1
    /\ \E r \in Reqs : rq[r].pc = "read"

\* The failures of the collaborators a handler can meet inside its outer try.
Failures == {ReadError, WriteError, LoadErrorMsg, EncodeError, ZipError} \cup EngineErrors

\* C12: on /separate and /separate/all every failure that is not a
\* validation error (reading the upload, writing the scratch file, loading
\* the model, invoking the engine, encoding a stem, building the zip) is
\* answered 500 by the outermost handler, and the 400 raised for an unknown
\* stem passes through it unchanged.
C12_FailuresAre500 ==
    \A r \in Reqs :
        Responded(r) =>
            /\ (rq[r].exc.kind = "error") =>
                  /\ rq[r].exc.cause \in Failures
                  /\ rq[r].resp.status = 500
                  /\ rq[r].resp.kind = "error"
                  /\ rq[r].resp.detail.text = "Separation failed"
            /\ (rq[r].exc.kind = "http") =>
                  /\ rq[r].exc = UnknownStem(rq[r])
                  /\ rq[r].resp.status = 400
                  /\ rq[r].resp.detail = rq[r].exc
            /\ (rq[r].exc.kind = "none") => rq[r].resp.status \in {200, 400}
            /\ (rq[r].resp.status = 200) => rq[r].exc.kind = "none"

C12_Witness ==
    \E r \in Reqs :
        /\ Responded(r)
        /\ rq[r].ep = "all"
        /\ rq[r].exc = Error(ZipError)
        /\ rq[r].resp.status = 500
        /\ rq[r].deleted = 1

\* The response request q gets when its engine call fails with cause c.
EngineFailureResponse(q, c) == ErrorResponse(Outermost(q.ep, Error(c)))

\* C13: an engine failure is reported generically: the 500 body of a request
\* whose engine call failed is the body the same request would get had the
\* engine failed for any other cause; the cause is not in the body.
C13_GenericEngineFailure ==
    \A r \in Reqs :
        (/\ Responded(r)
         /\ rq[r].engine_calls = 1
         /\ rq[r].exc.kind = "error"
         /\ rq[r].exc.cause \in EngineErrors)
        => /\ \A c \in EngineErrors : rq[r].resp = EngineFailureResponse(rq[r], c)
           /\ rq[r].resp.detail.cause = ""

C15_MetadataStems ==
    \A r \in Reqs :
        (/\ Responded(r)
         /\ rq[r].ep = "separate"
         /\ rq[r].stem = NoStem
         /\ rq[r].resp.status = 200)
        => /\ rq[r].resp.kind = "metadata"
           /\ EngineReturned(r)
           /\ rq[r].resp.stems = rq[r].separated
           /\ Range(rq[r].resp.stems) = Range(rq[r].separated)
           /\ Len(rq[r].resp.stems) = Cardinality(Range(rq[r].separated))
           /\ rq[r].encodes = Len(rq[r].separated)

C15_Witness ==
    \E r \in Reqs :
        /\ Responded(r)
        /\ rq[r].ep = "separate"
        /\ rq[r].stem = NoStem
        /\ rq[r].resp.status = 200
        /\ rq[r].resp.stems = <<"drums", "guitar", "vocals">>

\* What a request with the inputs of q (filename, stem) is answered, given
\* what its collaborators did (the failure met, if any, and the mapping the
\* engine returned).  The route taken is not an argument.
SeparateOutcome(q) ==
    IF q.filename \in {NoName, ""}
    THEN [NoResp EXCEPT !.status = 400, !.kind = "error",
             !.detail = [kind |-> "http", status |-> 400, text |-> "No filename provided",
                         cause |-> "", stem |-> "", available |-> <<>>]]
    ELSE IF q.exc.kind = "error"
    THEN [NoResp EXCEPT !.status = 500, !.kind = "error",
             !.detail = [kind |-> "http", status |-> 500, text |-> "Separation failed",
                         cause |-> q.exc.cause, stem |-> "", available |-> <<>>]]
    ELSE IF q.stem \in {NoStem, ""}
    THEN [NoResp EXCEPT !.status = 200, !.kind = "metadata", !.track_id = q.id,
             !.stems = q.separated, !.model = q.model]
    ELSE IF q.stem \in Range(q.separated)
    THEN [NoResp EXCEPT !.status = 200, !.kind = "stream", !.track_id = q.id,
             !.stem_name = q.stem, !.filename = <<q.stem, "wav">>]
    ELSE [NoResp EXCEPT !.status = 400, !.kind = "error",
             !.detail = [kind |-> "http", status |-> 400, text |-> "Stem not found",
                         cause |-> "", stem |-> q.stem, available |-> q.separated]]

\* The scratch files q has created and deleted, and whether its file is
\* left on disk, given the same.
SeparateFiles(q) ==
    IF q.filename \in {NoName, ""} \/ q.exc.cause = ReadError
    THEN [created |-> 0, deleted |-> 0, left |-> FALSE]
    ELSE IF q.exc.cause = WriteError
    THEN [created |-> 1, deleted |-> 0, left |-> TRUE]
    ELSE [created |-> 1, deleted |-> 1, left |-> FALSE]

\* C16: /separate/stem/{stem_name} behaves as /separate with stem=stem_name:
\* on both routes the response (status, shape, headers), the scratch files
\* and the use of the model cache are one and the same function of the
\* upload, the stem, the cache and what the engine did.
C16_StemRouteSame ==
    \A r \in Reqs :
        (Responded(r) /\ rq[r].ep \in {"separate", "stem"})
        => /\ rq[r].resp = SeparateOutcome(rq[r])
           /\ [created |-> rq[r].created, deleted |-> rq[r].deleted,
               left |-> rq[r].id \in fs] = SeparateFiles(rq[r])
           /\ rq[r].got => rq[r].handle \in {NoHandle, _separator}
           /\ (rq[r].got /\ rq[r].handle = NoHandle) => rq[r].exc.cause = LoadErrorMsg
           /\ rq[r].ep = "stem" => rq[r].stem \in StemPaths

C16_Witness ==
    \E r \in Reqs :
        /\ Responded(r)
        /\ rq[r].ep = "stem"
        /\ rq[r].stem = "guitar"
        /\ rq[r].separated = <<"drums", "guitar", "vocals">>
        /\ rq[r].resp.status = 200
        /\ rq[r].resp.stem_name = "guitar"
        /\ rq[r].id \notin fs

\* C17: the model reported in a 200 metadata response is the model the
\* handle used for that request was constructed with.
C17_ReportedModelIsUsed ==
    \A r \in Reqs :
        (Responded(r) /\ rq[r].resp.status = 200 /\ rq[r].resp.kind = "metadata")
        => rq[r].resp.model = rq[r].handle.model

\* C18 as stated: on /separate a request that supplies a stem value (any
\* string, the empty one included) ends in a single-stem 200 whose
\* X-Stem-Name is that value, a 400 or a 500, never in the metadata
\* descriptor; a request that supplies none ends in the metadata descriptor
\* or a 500.
C18_ShapeByStemSupplied ==
    \A r \in Reqs :
        (Responded(r) /\ rq[r].ep = "separate")
        => IF rq[r].stem # NoStem
           THEN /\ rq[r].resp.kind # "metadata"
                /\ \/ rq[r].resp.status \in {400, 500}
                   \/ /\ rq[r].resp.status = 200
                      /\ rq[r].resp.kind = "stream"
                      /\ rq[r].resp.stem_name = rq[r].stem
           ELSE \/ rq[r].resp.status = 500
                \/ rq[r].resp.status = 200 /\ rq[r].resp.kind = "metadata"

\* C18 amended: on /separate a request that supplies a NON-EMPTY stem value
\* ends in a single-stem 200 whose X-Stem-Name is that value, a 400 or a
\* 500, never in the metadata descriptor; a request that supplies none, or
\* the empty string, ends in the metadata descriptor, a 500, or the 400 of a
\* missing filename.
C18_ShapeByStem ==
    \A r \in Reqs :
        (Responded(r) /\ rq[r].ep = "separate")
        => IF rq[r].stem \notin {NoStem, ""}
           THEN /\ rq[r].resp.kind # "metadata"
                /\ \/ rq[r].resp.status \in {400, 500}
                   \/ /\ rq[r].resp.status = 200
                      /\ rq[r].resp.kind = "stream"
                      /\ rq[r].resp.stem_name = rq[r].stem
           ELSE \/ rq[r].resp.status = 500
                \/ rq[r].resp.status = 200 /\ rq[r].resp.kind = "metadata"
                \/ /\ rq[r].resp.status = 400
                   /\ rq[r].filename \in {NoName, ""}
                   /\ rq[r].resp.detail.text = "No filename provided"

C18_Witness ==
    \E r \in Reqs :
        /\ Responded(r)
        /\ rq[r].ep = "separate"
        /\ rq[r].stem = ""
        /\ rq[r].filename = "song.wav"
        /\ rq[r].resp.status = 200
        /\ rq[r].resp.kind = "metadata"

\* C19: the model cache is monotonic: once it holds a handle no step clears
\* it or replaces the handle, and model_loaded, once reported true, is never
\* reported false.
C19_CacheMonotonic ==
    [][ /\ _separator # NoHandle => _separator' = _separator
        /\ health.model_loaded => health'.model_loaded ]_vars

C19_Witness ==
    \E r \in Reqs :
        /\ Responded(r)
        /\ _separator # NoHandle
        /\ rq[r].model # _separator.model
        /\ rq[r].handle = _separator
        /\ rq[r].exc.cause \in EngineErrors
        /\ health.model_loaded
        /\ arrived = 2

====
